---- MODULE Spec2Model ----
(***************************************************************************)
(* shodoflo: the packet capture agent (agents/pcap_agent.py).              *)
(*                                                                         *)
(* Frames arrive on a packet socket; Server.process_data classifies each   *)
(* one against the configured network, asks the Recent cache whether the   *)
(* flow key was seen recently and, when it was not, submits a write unit   *)
(* (RedisHandler.flow_to_redis) that increments the key's counter in Redis *)
(* and sets its expiry.  main() runs the event loop until interrupted,     *)
(* cancels the outstanding tasks and closes the socket.                    *)
(*                                                                         *)
(* Text is modelled as a sequence of one-character strings, so that        *)
(* formatting a key and splitting it again are computed, not assumed.      *)
(***************************************************************************)
EXTENDS Integers, Sequences, FiniteSets, TLC

VARIABLES
    recently,    \* Server.recently: the Recent object (its fields)
    now,         \* the wall clock read by time.time()
    tasks,       \* write units submitted and still referenced, by task id
    redis,       \* the store: the counters, their expiries, the known clients
    main_pc,     \* where main() is
    gathered,    \* main: the tasks all_tasks returned, handed to close_tasks
    sock_open,   \* Server.sock is open
    nbuckets,    \* history: the buckets argument Recent was constructed with
    db,          \* app/database.py: the reconciliation pass over decoded artifacts
    rot,         \* history: rotations of the cache so far
    writes,      \* history: flow key -> write units submitted for it
    not_seen_at, \* history: flow key -> rot when seen(key) last returned False
    lost,        \* history: flow keys a write unit of which failed or was cancelled
    call         \* history: the last process_data call: its frame, the key it
                 \* presented to seen, what seen returned, and whether the
                 \* call before presented the same key

vars == <<recently, now, tasks, redis, main_pc, gathered, sock_open,
          nbuckets, db, rot, writes, not_seen_at, lost, call>>

----------------------------------------------------------------------------
(* Bounds of the model.                                                    *)

\* The clock stops advancing here.
MaxTime == 3

\* The classifier alone is fed frames until this many write units are pending.
MaxPending == 1

\* The longest list of artifacts a reconciliation pass is given.
MaxItems == 3

----------------------------------------------------------------------------
(* Text.                                                                   *)

DigitChars == <<"0", "1", "2", "3", "4", "5", "6", "7", "8", "9">>

\* str(n) for a non-negative integer: its decimal digits.
RECURSIVE DecimalStr(_)
DecimalStr(n) ==
    IF n < 10 THEN <<DigitChars[n + 1]>>
    ELSE DecimalStr(n \div 10) \o <<DigitChars[(n % 10) + 1]>>

\* sep.join(parts)
RECURSIVE JoinStr(_, _)
JoinStr(parts, sep) ==
    IF Len(parts) = 0 THEN <<>>
    ELSE IF Len(parts) = 1 THEN parts[1]
    ELSE parts[1] \o sep \o JoinStr(Tail(parts), sep)

\* text.split(sep) for a one-character separator.
RECURSIVE SplitStr(_, _)
SplitStr(text, sep) ==
    IF \A i \in 1..Len(text) : text[i] # sep THEN <<text>>
    ELSE LET i == CHOOSE j \in 1..Len(text) :
                      text[j] = sep /\ \A h \in 1..(j - 1) : text[h] # sep
         IN  <<SubSeq(text, 1, i - 1)>> \o SplitStr(SubSeq(text, i + 1, Len(text)), sep)

FLOW_TAG == <<"f", "l", "o", "w">>

----------------------------------------------------------------------------
(* Addresses and the configured network.                                   *)

\* ipaddress.IPv4Address(packed): the address as an integer.
AddressInt(s) == ((s[1] * 256 + s[2]) * 256 + s[3]) * 256 + s[4]

\* str(IPv4Address): dotted decimal.
AddressStr(s) == JoinStr([i \in 1..4 |-> DecimalStr(s[i])], <<".">>)

RECURSIVE Pow2(_)
Pow2(n) == IF n = 0 THEN 1 ELSE 2 * Pow2(n - 1)

\* address in network (IPv4Network.__contains__): the address's leading
\* prefixlen bits are the network's.
InNetwork(s, net) ==
    AddressInt(s) \div Pow2(32 - net.prefixlen)
        = AddressInt(net.network_address) \div Pow2(32 - net.prefixlen)

\* The network given on the command line: 10.0.0.0/24.
our_network == [network_address |-> <<10, 0, 0, 0>>, prefixlen |-> 24]

IPPROTO_ICMP == 1
IPPROTO_TCP == 6
IPPROTO_UDP == 17
TCP_OR_UDP == {IPPROTO_TCP, IPPROTO_UDP}

\* A frame as process_data reads it: pkt.p, pkt.src, pkt.dst and the ports of
\* pkt.data.
Frame(p, src, dst, sport, dport) ==
    [p |-> p, src |-> src, dst |-> dst, sport |-> sport, dport |-> dport]

\* No frame yet.
NoFrame == Frame(0, <<0, 0, 0, 0>>, <<0, 0, 0, 0>>, 0, 0)

\* The frames the packet socket delivers to the running agent (IPv4: the
\* socket is bound to the network's family): one flow seen in both
\* directions, a second flow of the same two hosts, and one frame of each
\* kind the classifier discards.  10.0.1.5 is just outside the /24.
Frames ==
    {Frame(IPPROTO_TCP, <<10, 0, 0, 5>>, <<10, 0, 1, 5>>, 443, 53),
     Frame(IPPROTO_UDP, <<10, 0, 1, 5>>, <<10, 0, 0, 5>>, 53, 443),
     Frame(IPPROTO_TCP, <<10, 0, 1, 5>>, <<10, 0, 0, 5>>, 443, 53),
     Frame(IPPROTO_TCP, <<10, 0, 0, 5>>, <<10, 0, 0, 6>>, 443, 53),
     Frame(IPPROTO_UDP, <<10, 0, 1, 5>>, <<9, 9, 9, 9>>, 53, 443),
     Frame(IPPROTO_ICMP, <<10, 0, 0, 5>>, <<10, 0, 1, 5>>, 0, 0)}

\* A wider set of frames, for the classifier alone.
WideHosts == {<<10, 0, 0, 5>>, <<10, 0, 0, 255>>, <<10, 0, 1, 5>>, <<9, 9, 9, 9>>}
WidePorts == {53, 65535}
WideFrames ==
    {f \in [p : {IPPROTO_TCP, IPPROTO_UDP, IPPROTO_ICMP},
            src : WideHosts, dst : WideHosts,
            sport : WidePorts, dport : WidePorts] : f.src # f.dst}

----------------------------------------------------------------------------
(* class Recent.  The bucket sets are objects: self.buckets lists them and *)
(* self.current refers to one of them.  A reference is modelled as the     *)
(* object's position in self.buckets (0: an object no longer in the list). *)

\* Recent.__init__(cycle, buckets, frequency) at time t.
RecentInit(cycle, buckets, frequency, t) ==
    [buckets     |-> [i \in 1..buckets |-> {}],
     working_set |-> {},
     current     |-> 1,
     last_time   |-> t,
     cycle       |-> cycle,
     frequency   |-> frequency,
     count       |-> 0]

\* check_frequency gets past both early returns: this call rotates.
Rotates(r, t) ==
    /\ ~(r.count + 1 < r.frequency)
    /\ ~((t - r.last_time) < r.cycle)

\* Rotate with a slip: working_set is emptied instead of rebuilt.
RotateForgetsAll(r, t) ==
    LET kept == SubSeq(r.buckets, 1, Len(r.buckets) - 1)
    IN  [r EXCEPT !.count = 0,
                  !.last_time = t,
                  !.working_set = {},
                  !.current = 1,
                  !.buckets = <<{}>> \o kept]

\* Rotate with a slip: buckets.pop(0), the newest bucket is dropped.
RotatePopsNewest(r, t) ==
    LET kept == Tail(r.buckets)
        working_set == UNION {kept[i] : i \in 1..Len(kept)}
    IN  [r EXCEPT !.count = 0,
                  !.last_time = t,
                  !.working_set = working_set,
                  !.current = 1,
                  !.buckets = <<{}>> \o kept]

\* Rotate with a slip: working_set is rebuilt before the oldest bucket is
\* popped, so it keeps the discarded keys.
RotateKeepsDiscarded(r, t) ==
    LET kept == SubSeq(r.buckets, 1, Len(r.buckets) - 1)
        working_set == UNION {r.buckets[i] : i \in 1..Len(r.buckets)}
    IN  [r EXCEPT !.count = 0,
                  !.last_time = t,
                  !.working_set = working_set,
                  !.current = 1,
                  !.buckets = <<{}>> \o kept]

\* Rotate with a slip: the oldest bucket is not popped.
RotateNoPop(r, t) ==
    LET working_set == UNION {r.buckets[i] : i \in 1..Len(r.buckets)}
    IN  [r EXCEPT !.count = 0,
                  !.last_time = t,
                  !.working_set = working_set,
                  !.current = 1,
                  !.buckets = <<{}>> \o r.buckets]

\* The rotation: pop the oldest bucket, rebuild working_set from the rest,
\* make a new current bucket and insert it in front.
Rotate(r, t) ==
    LET kept == SubSeq(r.buckets, 1, Len(r.buckets) - 1)
        working_set == UNION {kept[i] : i \in 1..Len(kept)}
    IN  [r EXCEPT !.count = 0,
                  !.last_time = t,
                  !.working_set = working_set,
                  !.current = 1,
                  !.buckets = <<{}>> \o kept]

\* check_frequency with a slip: it catches up, rotating once more when two
\* cycles or more have elapsed.
CheckFrequencyCatchesUp(r, t) ==
    IF r.count + 1 < r.frequency THEN [r EXCEPT !.count = r.count + 1]
    ELSE IF (t - r.last_time) < r.cycle THEN [r EXCEPT !.count = 0]
    ELSE IF (t - r.last_time) < 2 * r.cycle THEN Rotate(r, t)
    ELSE Rotate(Rotate(r, t), t)

\* Recent.check_frequency() when time.time() returns t.
CheckFrequency(r, t) ==
    IF r.count + 1 < r.frequency THEN [r EXCEPT !.count = r.count + 1]
    ELSE IF (t - r.last_time) < r.cycle THEN [r EXCEPT !.count = 0]
    ELSE Rotate(r, t)

\* self.current.add(thing): the object self.current refers to gains thing.
CurrentAdd(r, thing) ==
    IF r.current \in 1..Len(r.buckets)
    THEN [r EXCEPT !.buckets[r.current] = @ \cup {thing}]
    ELSE r

\* seen with a slip: a hit refreshes the key into the current bucket.
SeenRefreshes(r, thing, t) ==
    LET r1 == CheckFrequency(r, t)
    IN  IF thing \in r1.working_set
        THEN [ret |-> TRUE, r |-> CurrentAdd(r1, thing)]
        ELSE [ret |-> FALSE,
              r |-> CurrentAdd([r1 EXCEPT !.working_set = @ \cup {thing}], thing)]

\* seen with a slip: a miss is put into the current bucket only, not into
\* working_set.
SeenUnrecorded(r, thing, t) ==
    LET r1 == CheckFrequency(r, t)
    IN  IF thing \in r1.working_set
        THEN [ret |-> TRUE, r |-> r1]
        ELSE [ret |-> FALSE, r |-> CurrentAdd(r1, thing)]

\* seen with a slip: a miss is put into working_set only, not into the
\* current bucket.
SeenWorkingSetOnly(r, thing, t) ==
    LET r1 == CheckFrequency(r, t)
    IN  IF thing \in r1.working_set
        THEN [ret |-> TRUE, r |-> r1]
        ELSE [ret |-> FALSE, r |-> [r1 EXCEPT !.working_set = @ \cup {thing}]]

\* Recent.seen(thing) when time.time() returns t: the value returned and the
\* object afterwards.
Seen(r, thing, t) ==
    LET r1 == CheckFrequency(r, t)
    IN  IF thing \in r1.working_set
        THEN [ret |-> TRUE, r |-> r1]
        ELSE [ret |-> FALSE,
              r |-> CurrentAdd([r1 EXCEPT !.working_set = @ \cup {thing}], thing)]

----------------------------------------------------------------------------
(* Server.process_data: the classifier.                                    *)

NoKey == [client |-> <<>>, k |-> <<>>]

\* "{};{};{};flow".format(client, remote, remote_port)
FlowKey(client, remote, remote_port) ==
    JoinStr(<<client, remote, DecimalStr(remote_port), FLOW_TAG>>, <<";">>)

\* Classify with a slip: the destination port is taken in both directions.
ClassifyDport(pkt) ==
    IF pkt.p \notin TCP_OR_UDP THEN NoKey
    ELSE IF InNetwork(pkt.src, our_network)
    THEN IF InNetwork(pkt.dst, our_network) THEN NoKey
         ELSE [client |-> AddressStr(pkt.src),
               k |-> FlowKey(AddressStr(pkt.src), AddressStr(pkt.dst), pkt.dport)]
    ELSE IF InNetwork(pkt.dst, our_network)
    THEN IF InNetwork(pkt.src, our_network) THEN NoKey
         ELSE [client |-> AddressStr(pkt.dst),
               k |-> FlowKey(AddressStr(pkt.dst), AddressStr(pkt.src), pkt.dport)]
    ELSE NoKey

\* Classify with a slip: the protocol is not looked at.
ClassifyAnyProtocol(pkt) ==
    IF InNetwork(pkt.src, our_network)
    THEN IF InNetwork(pkt.dst, our_network) THEN NoKey
         ELSE [client |-> AddressStr(pkt.src),
               k |-> FlowKey(AddressStr(pkt.src), AddressStr(pkt.dst), pkt.dport)]
    ELSE IF InNetwork(pkt.dst, our_network)
    THEN IF InNetwork(pkt.src, our_network) THEN NoKey
         ELSE [client |-> AddressStr(pkt.dst),
               k |-> FlowKey(AddressStr(pkt.dst), AddressStr(pkt.src), pkt.sport)]
    ELSE NoKey

\* The body of the once-loop up to the key: the client and the key of a
\* frame, or NoKey where the code breaks out.
Classify(pkt) ==
    IF pkt.p \notin TCP_OR_UDP THEN NoKey
    ELSE IF InNetwork(pkt.src, our_network)
    THEN IF InNetwork(pkt.dst, our_network) THEN NoKey
         ELSE [client |-> AddressStr(pkt.src),
               k |-> FlowKey(AddressStr(pkt.src), AddressStr(pkt.dst), pkt.dport)]
    ELSE IF InNetwork(pkt.dst, our_network)
    THEN IF InNetwork(pkt.src, our_network) THEN NoKey
         ELSE [client |-> AddressStr(pkt.dst),
               k |-> FlowKey(AddressStr(pkt.dst), AddressStr(pkt.src), pkt.sport)]
    ELSE NoKey

----------------------------------------------------------------------------
(* The write units.  RedisHandler.submit hands flow_to_redis to the        *)
(* scheduler; a unit then performs its three store operations one at a     *)
(* time, alongside reception and the other units.                          *)

\* The units that have not finished.
Unfinished(ts) == {id \in DOMAIN ts : ts[id].pc \in {"client_to_redis", "incr", "expire"}}

\* self.redis.submit(self.redis.flow_to_redis, client, k): a new unit, about
\* to start.
Submit(ts, client, k) ==
    LET id == CHOOSE i \in 1..(Cardinality(DOMAIN ts) + 1) : i \notin DOMAIN ts
    IN  [i \in DOMAIN ts \cup {id} |->
            IF i = id THEN [client |-> client, k |-> k, pc |-> "client_to_redis"]
            ELSE ts[i]]

\* A unit that finished: it stays only while main holds a reference to it
\* (the set all_tasks returned).
Finish(ts, id, how) ==
    IF id \in gathered THEN [ts EXCEPT ![id].pc = how]
    ELSE [i \in DOMAIN ts \ {id} |-> ts[i]]

TTL_GRACE == 900
NoExpiry == 0 - 1

\* self.client_to_redis(client_address): the client is registered as known.
ClientToRedis(store, client) ==
    [store EXCEPT !.clients = @ \cup {client}]

\* The increment with a slip: the counter is written, not incremented
\* (SET k 1).
RedisSet(store, k) ==
    [store EXCEPT !.value = [j \in DOMAIN store.value \cup {k} |->
                                IF j = k THEN 1 ELSE store.value[j]],
                  !.ttl = [j \in DOMAIN store.ttl \cup {k} |->
                                IF j = k THEN NoExpiry ELSE store.ttl[j]]]

\* self.redis.incr(k): a missing key counts from 0 and is created without
\* an expiry; an existing key keeps the expiry it has.
RedisIncr(store, k) ==
    IF k \in DOMAIN store.value
    THEN [store EXCEPT !.value[k] = @ + 1]
    ELSE [store EXCEPT !.value = [j \in DOMAIN store.value \cup {k} |->
                                     IF j = k THEN 1 ELSE store.value[j]],
                       !.ttl = [j \in DOMAIN store.ttl \cup {k} |->
                                     IF j = k THEN NoExpiry ELSE store.ttl[j]]]

\* self.redis.expire(k, TTL_GRACE): an existing key's expiry is set.
RedisExpire(store, k, ttl) ==
    IF k \in DOMAIN store.value THEN [store EXCEPT !.ttl[k] = ttl] ELSE store

----------------------------------------------------------------------------
(* app/database.py: the artifacts.  An artifact is a record of its         *)
(* attributes; has_metadata says whether it has a metadata attribute (a    *)
(* merged, copied or reversed artifact does, a decoded one does not).  The *)
(* metadata sets are objects that several artifacts may refer to: they     *)
(* live in a heap (a sequence of sets) and artifact.metadata maps a        *)
(* metadata type to a position in it.                                      *)

\* An attribute the variant does not have.
NoAddress == <<>>
NoText == <<>>

\* The variants: the classes ARTIFACT_MAPPER names.
ListVariants == {"DNS", "CNAME"}
NetflowVariants == {"Netflow", "RST", "ICMP"}
ReconVariants == {"RST", "ICMP"}
Variants == ListVariants \cup {"NXDOMAIN"} \cup NetflowVariants

\* The class attribute METADATA_TYPES.
ClassMetadataTypes(cls) ==
    IF cls \in NetflowVariants THEN {"clients", "types", "ports"}
    ELSE {"clients", "types"}

\* ReconArtifact.REVERSED_METADATA_TYPES
REVERSED_METADATA_TYPES == {"targets", "types", "ports"}

\* METADATA_FOR['types']: the class name without 'Artifact'.
TypeName(cls) ==
    CASE cls = "DNS" -> <<"D", "N", "S">>
      [] cls = "CNAME" -> <<"C", "N", "A", "M", "E">>
      [] cls = "NXDOMAIN" -> <<"N", "X", "D", "O", "M", "A", "I", "N">>
      [] cls = "Netflow" -> <<"N", "e", "t", "f", "l", "o", "w">>
      [] cls = "RST" -> <<"R", "S", "T">>
      [] cls = "ICMP" -> <<"I", "C", "M", "P">>

\* METADATA_FOR[k](self)
METADATA_FOR(self, k) ==
    CASE k = "targets" -> AddressStr(self.client_address)
      [] k = "clients" -> AddressStr(self.client_address)
      [] k = "types" -> TypeName(self.cls)
      [] k = "ports" -> self.remote_port

\* A decoded artifact: the attributes extract_key_data and
\* extract_value_data set; no metadata attribute.
Artifact(cls, client, remote, port, rname, oname, onames, count) ==
    [cls |-> cls, client_address |-> client, remote_address |-> remote,
     remote_port |-> port, rname |-> rname, oname |-> oname,
     onames |-> onames, count |-> count,
     METADATA_TYPES |-> ClassMetadataTypes(cls),
     has_metadata |-> FALSE, metadata |-> <<>>]

\* int(v) for a text of decimal digits.
DigitValue(ch) == (CHOOSE i \in 1..10 : DigitChars[i] = ch) - 1
RECURSIVE ParseInt(_)
ParseInt(text) ==
    IF Len(text) = 1 THEN DigitValue(text[1])
    ELSE 10 * ParseInt(SubSeq(text, 1, Len(text) - 1)) + DigitValue(text[Len(text)])

\* ipaddress.ip_address(text) for dotted decimal text: the address.
ip_address(text) ==
    LET parts == SplitStr(text, <<".">>[1])
    IN  [i \in 1..Len(parts) |-> ParseInt(parts[i])]

\* ARTIFACT_MAPPER[tag]; NoVariant for a tag it does not have.
NoVariant == "none"
ARTIFACT_MAPPER(tag) ==
    CASE tag = <<"d", "n", "s">> -> "DNS"
      [] tag = <<"c", "n", "a", "m", "e">> -> "CNAME"
      [] tag = <<"n", "x">> -> "NXDOMAIN"
      [] tag = FLOW_TAG -> "Netflow"
      [] tag = <<"r", "s", "t">> -> "RST"
      [] tag = <<"i", "c", "m", "p">> -> "ICMP"
      [] OTHER -> NoVariant

\* The constructor with a slip: CLIENT_ADDR and REMOTE_ADDR exchanged.
NetflowArtifactSwapped(cls, k, v) ==
    LET parts == SplitStr(k, <<";">>[1])
    IN  Artifact(cls, ip_address(parts[2]), ip_address(parts[1]), parts[3],
                 NoText, NoText, <<>>, ParseInt(v))

\* NetflowArtifact(k, v) (and RSTArtifact, ICMPArtifact): __init__ splits
\* the key at ';', extract_key_data takes the client address, the remote
\* address and the remote port (as text) from its first three parts, and
\* extract_value_data takes the count from the value.
NetflowArtifact(cls, k, v) ==
    LET parts == SplitStr(k, <<";">>[1])
    IN  Artifact(cls, ip_address(parts[1]), ip_address(parts[2]), parts[3],
                 NoText, NoText, <<>>, ParseInt(v))

\* The reader's dispatch: the key's trailing tag names the class that is
\* constructed from the key and the value.  NoArtifact: no class for the tag
\* (the DNS-side classes are constructed from keys the capture agent never
\* writes).
NoArtifact == [cls |-> NoVariant]
Decode(k, v) ==
    LET parts == SplitStr(k, <<";">>[1])
        cls == ARTIFACT_MAPPER(parts[Len(parts)])
    IN  IF cls \in NetflowVariants THEN NetflowArtifact(cls, k, v) ELSE NoArtifact

\* ClientArtifact.metadata_for(k) in heap: the set it returns, as ref (its
\* position in the heap; 0 for a set just made) and value.
metadata_for(self, k, heap) ==
    IF self.has_metadata
    THEN IF k \in DOMAIN self.metadata
         THEN [ref |-> self.metadata[k], val |-> heap[self.metadata[k]]]
         ELSE [ref |-> 0, val |-> {}]
    ELSE [ref |-> 0,
          val |-> IF k \in self.METADATA_TYPES THEN {METADATA_FOR(self, k)} ELSE {}]

\* ClientArtifact.is_targeted(target); NoTarget is None.
NoTarget == [network_address |-> NoAddress, prefixlen |-> 0 - 1]
is_targeted(self, target) ==
    target = NoTarget \/ InNetwork(self.client_address, target)

\* The types in some order (a Python set is iterated in no particular one).
RECURSIVE SetToSeq(_)
SetToSeq(S) ==
    IF S = {} THEN <<>>
    ELSE LET x == CHOOSE y \in S : TRUE IN <<x>> \o SetToSeq(S \ {x})

\* The elements of a list.
Range(seq) == {seq[i] : i \in 1..Len(seq)}

\* { t: source.metadata_for(t) for t in types }: the dict and the heap after
\* it is built.  A set metadata_for made is a new object; a set it took from
\* source.metadata is that same object.
MetadataDict(source, types, heap) ==
    LET ts == SetToSeq(types)
        f[i \in 0..Len(ts)] ==
            IF i = 0 THEN [metadata |-> <<>>, heap |-> heap]
            ELSE LET got == metadata_for(source, ts[i], heap)
                     ref == IF got.ref = 0 THEN Len(f[i - 1].heap) + 1 ELSE got.ref
                 IN  [metadata |-> [t \in DOMAIN f[i - 1].metadata \cup {ts[i]} |->
                                       IF t = ts[i] THEN ref ELSE f[i - 1].metadata[t]],
                      heap |-> IF got.ref = 0 THEN Append(f[i - 1].heap, got.val)
                               ELSE f[i - 1].heap]
    IN  f[Len(ts)]

\* copy(): a new instance of the class (so METADATA_TYPES is the class's),
\* the attributes assigned from self, onames through onames_type (a list or
\* a set: either way a new object), metadata built from self.METADATA_TYPES.
\* Result: the copy and the heap.  DNSArtifact.copy, CNAMEArtifact.copy,
\* NXDOMAINArtifact.copy and NetflowArtifact.copy differ in the attributes
\* the variant has.
copy(self, heap) ==
    LET md == MetadataDict(self, self.METADATA_TYPES, heap)
    IN  [art |-> [self EXCEPT !.METADATA_TYPES = ClassMetadataTypes(self.cls),
                              !.has_metadata = TRUE,
                              !.metadata = md.metadata],
         heap |-> md.heap]

\* reversed() with a slip: client and remote are not swapped.
reversedKeepsSides(self, heap) ==
    LET new == [Artifact(self.cls, self.client_address, self.remote_address,
                         self.remote_port, NoText, NoText, <<>>, self.count)
                    EXCEPT !.METADATA_TYPES = REVERSED_METADATA_TYPES]
        md == MetadataDict(new, REVERSED_METADATA_TYPES, heap)
    IN  [art |-> [new EXCEPT !.has_metadata = TRUE, !.metadata = md.metadata],
         heap |-> md.heap]

\* ReconArtifact.reversed(): a new instance, client and remote swapped, the
\* instance's METADATA_TYPES set to REVERSED_METADATA_TYPES, metadata
\* computed for the new instance (which has no metadata attribute yet).
reversed(self, heap) ==
    LET new == [Artifact(self.cls, self.remote_address, self.client_address,
                         self.remote_port, NoText, NoText, <<>>, self.count)
                    EXCEPT !.METADATA_TYPES = REVERSED_METADATA_TYPES]
        md == MetadataDict(new, REVERSED_METADATA_TYPES, heap)
    IN  [art |-> [new EXCEPT !.has_metadata = TRUE, !.metadata = md.metadata],
         heap |-> md.heap]

\* The key merge files an artifact under: str(remote_address) for DNS, rname
\* for CNAME, oname for NXDOMAIN, '{}+{}'.format(remote_address, remote_port)
\* for Netflow, RST and ICMP.
MergeKey(item) ==
    CASE item.cls = "DNS" -> AddressStr(item.remote_address)
      [] item.cls = "CNAME" -> item.rname
      [] item.cls = "NXDOMAIN" -> item.oname
      [] OTHER -> AddressStr(item.remote_address) \o <<"+">> \o item.remote_port

\* Where merged holds key k (0: k not in merged).  merged is the dict, as
\* the sequence of its values in insertion order.
MergedAt(merged, k) ==
    IF \E j \in 1..Len(merged) : MergeKey(merged[j]) = k
    THEN CHOOSE j \in 1..Len(merged) : MergeKey(merged[j]) = k
    ELSE 0

\* The order merge takes the items in: items.pop() first, then the rest.
FoldOrder(items) ==
    IF items = <<>> THEN <<>>
    ELSE <<items[Len(items)]>> \o SubSeq(items, 1, Len(items) - 1)

\* merged[k].onames |= set(item.onames), or merged[k].count += item.count.
Combine(m, item) ==
    IF item.cls \in ListVariants
    THEN [m EXCEPT !.onames = SetToSeq(Range(m.onames) \cup Range(item.onames))]
    ELSE [m EXCEPT !.count = m.count + item.count]

\* for t in item.METADATA_TYPES: merged[k].metadata[t] |= item.metadata_for(t)
\* The sets merged[k].metadata refers to are updated in place.
UnionMetadata(m, item, heap) ==
    [j \in 1..Len(heap) |->
        IF \E t \in item.METADATA_TYPES \cap DOMAIN m.metadata : m.metadata[t] = j
        THEN heap[j] \cup UNION {metadata_for(item, t, heap).val :
                                    t \in {u \in item.METADATA_TYPES \cap DOMAIN m.metadata :
                                              m.metadata[u] = j}}
        ELSE heap[j]]

\* item.copy(set) for DNS and CNAME (onames_as_list turns the set into a
\* list, in no particular order, when merge returns), item.copy() for the
\* counter variants.
CopyForMerge(item, heap) ==
    LET c == copy(item, heap)
    IN  IF item.cls \in ListVariants
        THEN [c EXCEPT !.art.onames = SetToSeq(Range(item.onames))]
        ELSE c

\* The loop body with a slip: the representative address is overwritten by
\* every item, targeted or not.
FoldAnyClient(st, item, target) ==
    LET j == MergedAt(st.merged, MergeKey(item))
    IN  IF st.raised THEN st
        ELSE IF j = 0
        THEN LET c == CopyForMerge(item, st.heap)
             IN  [st EXCEPT !.merged = Append(@, c.art), !.heap = c.heap]
        ELSE LET m == Combine([st.merged[j] EXCEPT !.client_address = item.client_address],
                              item)
             IN  [merged |-> [st.merged EXCEPT ![j] = m],
                  heap |-> UnionMetadata(m, item, st.heap),
                  raised |-> ~(item.METADATA_TYPES \subseteq DOMAIN m.metadata)]

\* The loop body with a slip: the count of the item replaces the count.
FoldLastCount(st, item, target) ==
    LET j == MergedAt(st.merged, MergeKey(item))
    IN  IF st.raised THEN st
        ELSE IF j = 0
        THEN LET c == CopyForMerge(item, st.heap)
             IN  [st EXCEPT !.merged = Append(@, c.art), !.heap = c.heap]
        ELSE LET m == [st.merged[j] EXCEPT
                          !.client_address = IF is_targeted(item, target)
                                             THEN item.client_address ELSE @,
                          !.count = item.count]
             IN  [merged |-> [st.merged EXCEPT ![j] = m],
                  heap |-> UnionMetadata(m, item, st.heap),
                  raised |-> ~(item.METADATA_TYPES \subseteq DOMAIN m.metadata)]

\* The loop body with a slip: a targeted item overwrites the representative
\* address only while the address is not a targeted one yet (first match).
FoldFirstMatch(st, item, target) ==
    LET j == MergedAt(st.merged, MergeKey(item))
    IN  IF st.raised THEN st
        ELSE IF j = 0
        THEN LET c == CopyForMerge(item, st.heap)
             IN  [st EXCEPT !.merged = Append(@, c.art), !.heap = c.heap]
        ELSE LET m == Combine([st.merged[j] EXCEPT
                                  !.client_address =
                                      IF is_targeted(item, target)
                                         /\ ~is_targeted(st.merged[j], target)
                                      THEN item.client_address ELSE @],
                              item)
             IN  [merged |-> [st.merged EXCEPT ![j] = m],
                  heap |-> UnionMetadata(m, item, st.heap),
                  raised |-> ~(item.METADATA_TYPES \subseteq DOMAIN m.metadata)]

\* One item folded into merged (the body of merge's loop; for the item
\* popped first, the statements before the loop).  raised: the item names a
\* metadata type merged[k].metadata has no entry for, and merge ends in
\* KeyError.
Fold(st, item, target) ==
    LET j == MergedAt(st.merged, MergeKey(item))
    IN  IF st.raised THEN st
        ELSE IF j = 0
        THEN LET c == CopyForMerge(item, st.heap)
             IN  [st EXCEPT !.merged = Append(@, c.art), !.heap = c.heap]
        ELSE LET m == Combine([st.merged[j] EXCEPT
                                  !.client_address = IF is_targeted(item, target)
                                                     THEN item.client_address ELSE @],
                              item)
             IN  [merged |-> [st.merged EXCEPT ![j] = m],
                  heap |-> UnionMetadata(m, item, st.heap),
                  raised |-> ~(item.METADATA_TYPES \subseteq DOMAIN m.metadata)]

\* merge(items, target) in heap: what it returns (out; nothing if it
\* raised), the heap after it, and the list items after its pop().  The
\* four merge methods (DNSArtifact, CNAMEArtifact, NXDOMAINArtifact,
\* NetflowArtifact) are this loop over the variant's key and value.
merge(items, target, heap) ==
    LET order == FoldOrder(items)
        f[i \in 0..Len(order)] ==
            IF i = 0 THEN [merged |-> <<>>, heap |-> heap, raised |-> FALSE]
            ELSE Fold(f[i - 1], order[i], target)
        end == f[Len(order)]
    IN  [out |-> IF end.raised THEN <<>> ELSE end.merged,
         heap |-> end.heap,
         raised |-> end.raised,
         items |-> SubSeq(items, 1, Len(items) - 1)]

\* children with a slip: every pair is flagged, whatever the target.
childrenUnfiltered(self, origin_type, target) ==
    CASE self.cls = "DNS" ->
            IF origin_type = "address"
            THEN [i \in 1..Len(self.onames) |-> <<self.onames[i], TRUE>>]
            ELSE << <<AddressStr(self.remote_address), TRUE>> >>
      [] self.cls = "CNAME" ->
            IF origin_type = "address"
            THEN [i \in 1..Len(self.onames) |-> <<self.onames[i], TRUE>>]
            ELSE << <<self.rname, TRUE>> >>
      [] self.cls = "NXDOMAIN" ->
            IF origin_type = "fqdn" THEN << <<self.oname, TRUE>> >> ELSE <<>>
      [] OTHER -> <<>>

\* children(origin_type, target) of one artifact: the (name, targeted) pairs.
children(self, origin_type, target) ==
    CASE self.cls = "DNS" ->
            IF origin_type = "address"
            THEN [i \in 1..Len(self.onames) |-> <<self.onames[i], is_targeted(self, target)>>]
            ELSE << <<AddressStr(self.remote_address), is_targeted(self, target)>> >>
      [] self.cls = "CNAME" ->
            IF origin_type = "address"
            THEN [i \in 1..Len(self.onames) |-> <<self.onames[i], is_targeted(self, target)>>]
            ELSE << <<self.rname, is_targeted(self, target)>> >>
      [] self.cls = "NXDOMAIN" ->
            IF origin_type = "fqdn"
            THEN << <<self.oname, is_targeted(self, target)>> >>
            ELSE <<>>
      [] OTHER -> <<>>

----------------------------------------------------------------------------
(* The state machine.                                                      *)

\* The Recent configurations explored.  Server constructs Recent() with its
\* defaults (cycle 30, 3 buckets, frequency 10); the class takes any.
Cycles == {1, 2}
BucketCounts == {1, 2, 3}
Frequencies == {1, 2}

\* The event loop is running: in run_forever, or in run_until_complete while
\* close_tasks awaits.
LoopRunning == main_pc \in {"run_forever", "await"}

\* No reconciliation pass: the capture agent runs alone.
NoPass == [pc |-> "none"]

\* The agent's own state after Server.__init__ with Recent(cycle, buckets,
\* frequency).
AgentInit(cycle, buckets, frequency) ==
    /\ now = 0
    /\ recently = RecentInit(cycle, buckets, frequency, 0)
    /\ nbuckets = buckets
    /\ tasks = <<>>
    /\ redis = [value |-> <<>>, ttl |-> <<>>, clients |-> {}]
    /\ main_pc = "run_forever"
    /\ gathered = {}
    /\ sock_open = TRUE
    /\ rot = 0
    /\ writes = <<>>
    /\ not_seen_at = <<>>
    /\ lost = {}
    /\ call = [pkt |-> NoFrame, k |-> NoKey.k, ret |-> "none", again |-> FALSE]

\* The state after Server.__init__ with Recent(cycle, buckets, frequency).
InitWith(cycle, buckets, frequency) ==
    /\ AgentInit(cycle, buckets, frequency)
    /\ db = NoPass

\* The wall clock advances.
Tick ==
    /\ LoopRunning
    /\ now < MaxTime
    /\ now' = now + 1
    /\ UNCHANGED <<recently, tasks, redis, main_pc, gathered, sock_open,
                   nbuckets, db, rot, writes, not_seen_at, lost, call>>

\* f with key k mapped to v.
Put(f, k, v) == [j \in DOMAIN f \cup {k} |-> IF j = k THEN v ELSE f[j]]

\* Server.process_data on frame pkt, called by the event loop when the socket
\* is readable.
ProcessData(pkt) ==
    /\ LoopRunning
    /\ sock_open
    /\ LET c == Classify(pkt)
           s == Seen(recently, c.k, now)
       IN  IF c = NoKey
           THEN /\ call' = [pkt |-> pkt, k |-> NoKey.k, ret |-> "none",
                            again |-> FALSE]
                /\ UNCHANGED <<recently, tasks, rot, writes, not_seen_at>>
           ELSE /\ recently' = s.r
                /\ rot' = IF Rotates(recently, now) THEN rot + 1 ELSE rot
                /\ call' = [pkt |-> pkt, k |-> c.k,
                            ret |-> IF s.ret THEN "seen" ELSE "not seen",
                            again |-> call.k = c.k]
                /\ IF s.ret
                   THEN UNCHANGED <<tasks, writes, not_seen_at>>
                   ELSE /\ tasks' = Submit(tasks, c.client, c.k)
                        /\ writes' = Put(writes, c.k,
                                         IF c.k \in DOMAIN writes
                                         THEN writes[c.k] + 1 ELSE 1)
                        /\ not_seen_at' = Put(not_seen_at, c.k, rot')
    /\ UNCHANGED <<now, redis, main_pc, gathered, sock_open, nbuckets, db, lost>>

\* flow_to_redis, first operation: self.client_to_redis(client_address).
TaskClient(id) ==
    /\ LoopRunning
    /\ tasks[id].pc = "client_to_redis"
    /\ redis' = ClientToRedis(redis, tasks[id].client)
    /\ tasks' = [tasks EXCEPT ![id].pc = "incr"]
    /\ UNCHANGED <<recently, now, main_pc, gathered, sock_open,
                   nbuckets, db, rot, writes, not_seen_at, lost, call>>

\* flow_to_redis, second operation: self.redis.incr(k).
TaskIncr(id) ==
    /\ LoopRunning
    /\ tasks[id].pc = "incr"
    /\ redis' = RedisIncr(redis, tasks[id].k)
    /\ tasks' = [tasks EXCEPT ![id].pc = "expire"]
    /\ UNCHANGED <<recently, now, main_pc, gathered, sock_open,
                   nbuckets, db, rot, writes, not_seen_at, lost, call>>

\* flow_to_redis, third operation: self.redis.expire(k, TTL_GRACE); the unit
\* returns.
TaskExpire(id) ==
    /\ LoopRunning
    /\ tasks[id].pc = "expire"
    /\ redis' = RedisExpire(redis, tasks[id].k, TTL_GRACE)
    /\ tasks' = Finish(tasks, id, "done")
    /\ UNCHANGED <<recently, now, main_pc, gathered, sock_open,
                   nbuckets, db, rot, writes, not_seen_at, lost, call>>

\* A store operation of a unit raises (the store is unreachable or rejects
\* the write): the unit ends there, its remaining operations not performed.
TaskFail(id) ==
    /\ LoopRunning
    /\ id \in Unfinished(tasks)
    /\ tasks' = Finish(tasks, id, "failed")
    /\ lost' = lost \cup {tasks[id].k}
    /\ UNCHANGED <<recently, now, redis, main_pc, gathered, sock_open,
                   nbuckets, db, rot, writes, not_seen_at, call>>

\* The store drops a key whose expiry has run out.
KeyExpires(k) ==
    /\ redis.ttl[k] # NoExpiry
    /\ redis' = [redis EXCEPT !.value = [j \in DOMAIN redis.value \ {k} |-> redis.value[j]],
                              !.ttl = [j \in DOMAIN redis.ttl \ {k} |-> redis.ttl[j]]]
    /\ UNCHANGED <<recently, now, tasks, main_pc, gathered, sock_open,
                   nbuckets, db, rot, writes, not_seen_at, lost, call>>

\* KeyboardInterrupt ends event_loop.run_forever().
Interrupt ==
    /\ main_pc = "run_forever"
    /\ main_pc' = "all_tasks"
    /\ UNCHANGED <<recently, now, tasks, redis, gathered, sock_open,
                   nbuckets, db, rot, writes, not_seen_at, lost, call>>

\* main: tasks = asyncio.Task.all_tasks(event_loop); if tasks: run
\* close_tasks(tasks) until complete.
MainAllTasks ==
    /\ main_pc = "all_tasks"
    /\ gathered' = DOMAIN tasks
    /\ main_pc' = IF DOMAIN tasks # {} THEN "close_tasks" ELSE "server_close"
    /\ UNCHANGED <<recently, now, tasks, redis, sock_open,
                   nbuckets, db, rot, writes, not_seen_at, lost, call>>

\* close_tasks up to its await: gather the tasks and cancel the gathering,
\* which cancels every task in it that has not finished.
CloseTasksCancel ==
    /\ main_pc = "close_tasks"
    /\ tasks' = [id \in DOMAIN tasks |->
                    IF id \in gathered /\ id \in Unfinished(tasks)
                    THEN [tasks[id] EXCEPT !.pc = "cancelled"]
                    ELSE tasks[id]]
    /\ lost' = lost \cup {tasks[id].k : id \in gathered \cap Unfinished(tasks)}
    /\ main_pc' = "await"
    /\ UNCHANGED <<recently, now, redis, gathered, sock_open,
                   nbuckets, db, rot, writes, not_seen_at, call>>

\* What "await all_tasks" raises once every gathered task has finished.
AwaitOutcome(ts, ids) ==
    IF \E id \in ids : ts[id].pc = "cancelled" THEN "CancelledError"
    ELSE IF \E id \in ids : ts[id].pc = "failed" THEN "Exception"
    ELSE "none"

\* close_tasks with a slip: no except clause, the exception propagates.
CloseTasksUncaught(outcome) == outcome

\* close_tasks: await all_tasks; except CancelledError: pass.  The exception
\* close_tasks ends with ("none": it returns).
CloseTasksRaises(outcome) ==
    IF outcome = "CancelledError" THEN "none" ELSE outcome

\* The gathering completes; close_tasks, and with it run_until_complete,
\* returns or raises.
CloseTasksAwait ==
    /\ main_pc = "await"
    /\ gathered \cap Unfinished(tasks) = {}
    /\ main_pc' = IF CloseTasksRaises(AwaitOutcome(tasks, gathered)) = "none"
                  THEN "server_close" ELSE "raised"
    /\ UNCHANGED <<recently, now, tasks, redis, gathered, sock_open,
                   nbuckets, db, rot, writes, not_seen_at, lost, call>>

\* main: server.close(), which closes the socket; main returns.
ServerClose ==
    /\ main_pc = "server_close"
    /\ sock_open' = FALSE
    /\ main_pc' = "done"
    /\ UNCHANGED <<recently, now, tasks, redis, gathered,
                   nbuckets, db, rot, writes, not_seen_at, lost, call>>

\* The agent: Server.__init__ constructs Recent() with its defaults.
Init == InitWith(30, 3, 10)

Next ==
    \/ Tick
    \/ \E pkt \in Frames : ProcessData(pkt)
    \/ \E id \in DOMAIN tasks : TaskClient(id)
    \/ \E id \in DOMAIN tasks : TaskIncr(id)
    \/ \E id \in DOMAIN tasks : TaskExpire(id)
    \/ \E id \in DOMAIN tasks : TaskFail(id)
    \/ \E k \in DOMAIN redis.value : KeyExpires(k)
    \/ Interrupt
    \/ MainAllTasks
    \/ CloseTasksCancel
    \/ CloseTasksAwait
    \/ ServerClose

Spec == Init /\ [][Next]_vars

\* The Recent cache under every configuration, fed by the reception loop.
InitRecent ==
    \E c \in Cycles, b \in BucketCounts, f \in Frequencies : InitWith(c, b, f)

NextRecent ==
    \/ Tick
    \/ \E pkt \in Frames : ProcessData(pkt)

SpecRecent == InitRecent /\ [][NextRecent]_vars

\* Reception with write units that fail (each is lost before its first store
\* operation), under a Recent that may rotate at every tick of the clock.
InitLossy == \E b \in {2, 3} : InitWith(1, b, 1)

NextLossy ==
    \/ Tick
    \/ \E pkt \in Frames : ProcessData(pkt)
    \/ \E id \in DOMAIN tasks : TaskFail(id)

SpecLossy == InitLossy /\ [][NextLossy]_vars

\* The classifier alone: frames of every kind, while few units are pending.
NextClassify ==
    /\ Cardinality(DOMAIN tasks) < MaxPending
    /\ \E pkt \in WideFrames : ProcessData(pkt)

SpecClassify == Init /\ [][NextClassify]_vars

----------------------------------------------------------------------------
(* The reconciliation pass (app/database.py): a list of decoded artifacts  *)
(* of one variant is merged, possibly reversed first or afterwards, and    *)
(* what a merge returned may be merged again with further artifacts.       *)

\* Hosts and names of the records in the store: two clients inside the
\* local network, two outside it.
Client1 == <<10, 0, 0, 5>>
Client2 == <<10, 0, 0, 6>>
Client3 == <<10, 0, 1, 5>>
Client4 == <<9, 9, 9, 8>>
Remote1 == <<9, 9, 9, 9>>
Remote2 == <<10, 0, 0, 255>>
NameA == <<"a">>
NameB == <<"b">>
NameC == <<"c">>

\* The decoded artifacts of a variant.
Universe(cls) ==
    CASE cls = "DNS" ->
            {Artifact(cls, Client1, Remote1, NoText, NoText, NoText, <<NameA>>, 0),
             Artifact(cls, Client3, Remote1, NoText, NoText, NoText, <<NameB>>, 0),
             Artifact(cls, Client4, Remote1, NoText, NoText, NoText, <<NameA, NameC>>, 0),
             Artifact(cls, Client2, Remote2, NoText, NoText, NoText, <<NameB>>, 0)}
      [] cls = "CNAME" ->
            {Artifact(cls, Client1, NoAddress, NoText, NameA, NoText, <<NameB>>, 0),
             Artifact(cls, Client3, NoAddress, NoText, NameA, NoText, <<NameC, NameB>>, 0),
             Artifact(cls, Client2, NoAddress, NoText, NameB, NoText, <<NameC>>, 0)}
      [] cls = "NXDOMAIN" ->
            {Artifact(cls, Client1, NoAddress, NoText, NoText, NameA, <<>>, 1),
             Artifact(cls, Client3, NoAddress, NoText, NoText, NameA, <<>>, 2),
             Artifact(cls, Client4, NoAddress, NoText, NoText, NameA, <<>>, 4),
             Artifact(cls, Client2, NoAddress, NoText, NoText, NameB, <<>>, 2)}
      [] cls = "Netflow" ->
            {Artifact(cls, Client1, Remote1, DecimalStr(53), NoText, NoText, <<>>, 3),
             Artifact(cls, Client3, Remote1, DecimalStr(53), NoText, NoText, <<>>, 5),
             Artifact(cls, Client2, Remote1, DecimalStr(443), NoText, NoText, <<>>, 1)}
      [] cls = "RST" ->
            {Artifact(cls, Client1, Remote1, DecimalStr(53), NoText, NoText, <<>>, 1),
             Artifact(cls, Client3, Remote1, DecimalStr(53), NoText, NoText, <<>>, 2),
             Artifact(cls, Client2, Remote1, DecimalStr(53), NoText, NoText, <<>>, 4),
             Artifact(cls, Client1, Remote2, DecimalStr(53), NoText, NoText, <<>>, 2)}
      [] cls = "ICMP" ->
            {Artifact(cls, Client1, Remote1, DecimalStr(53), NoText, NoText, <<>>, 1),
             Artifact(cls, Client3, Remote1, DecimalStr(53), NoText, NoText, <<>>, 2),
             Artifact(cls, Client3, Remote2, DecimalStr(443), NoText, NoText, <<>>, 4)}

\* The target filters: none, or the local network.
Targets == {NoTarget, our_network}

\* Lists of elements of S of length n.
ListsOf(S, n) == [1..n -> S]

\* The variables of the capture agent.
agent_vars ==
    <<recently, now, tasks, redis, main_pc, gathered, sock_open,
      nbuckets, rot, writes, not_seen_at, lost, call>>

\* A pass over items (then rest) of variant cls under target.  History:
\* loaded, the artifacts as decoded, the first cut of them in items; before, the list and the heap as the
\* last operation found them; whole, all the artifacts held (and the heap)
\* when the first merge was called; nrev, how often the list was reversed;
\* revout, whether what a merge returned was reversed; nmerge, how many
\* merges were made.
Pass(cls, target, items, rest) ==
    [pc |-> "loaded", cls |-> cls, target |-> target,
     items |-> items, rest |-> rest, out |-> <<>>, heap |-> <<>>,
     raised |-> FALSE, kids |-> <<>>, origin_type |-> "none",
     loaded |-> items \o rest, cut |-> Len(items),
     before |-> [items |-> <<>>, heap |-> <<>>],
     whole |-> [items |-> <<>>, heap |-> <<>>],
     nrev |-> 0, nmerge |-> 0, revout |-> FALSE]

InitDb ==
    /\ AgentInit(30, 3, 10)
    /\ \E cls \in Variants, target \in Targets, n \in 1..MaxItems :
          \E all \in ListsOf(Universe(cls), n), cut \in 1..n :
              db = Pass(cls, target, SubSeq(all, 1, cut), SubSeq(all, cut + 1, n))

\* [ x.reversed() for x in list ] in heap.
ReversedAll(list, heap) ==
    LET f[i \in 0..Len(list)] ==
            IF i = 0 THEN [list |-> <<>>, heap |-> heap]
            ELSE LET r == reversed(list[i], f[i - 1].heap)
                 IN  [list |-> Append(f[i - 1].list, r.art), heap |-> r.heap]
    IN  f[Len(list)]

\* The caller reverses every artifact it holds (RST and ICMP only).
DbReversed ==
    /\ db.pc \in {"loaded", "fed"}
    /\ db.cls \in ReconVariants
    /\ db.nrev < 2
    /\ LET r == ReversedAll(db.items, db.heap)
           q == ReversedAll(db.rest, r.heap)
       IN  db' = [db EXCEPT !.items = r.list, !.rest = q.list, !.heap = q.heap,
                            !.before = [items |-> db.items, heap |-> db.heap],
                            !.nrev = @ + 1,
                            !.revout = (db.pc = "fed")]
    /\ UNCHANGED agent_vars

\* The caller merges the list: cls.merge(items, target).
DbMerge ==
    /\ db.pc \in {"loaded", "fed"}
    /\ db.items # <<>>
    /\ LET r == merge(db.items, db.target, db.heap)
       IN  db' = [db EXCEPT !.pc = "merged", !.items = r.items, !.out = r.out,
                            !.heap = r.heap, !.raised = r.raised,
                            !.before = [items |-> db.items, heap |-> db.heap],
                            !.whole = IF db.nmerge = 0
                                      THEN [items |-> db.items \o db.rest, heap |-> db.heap]
                                      ELSE @,
                            !.nmerge = @ + 1]
    /\ UNCHANGED agent_vars

\* The caller makes a list of what merge returned and the artifacts not
\* merged yet.
DbFeed ==
    /\ db.pc = "merged"
    /\ ~db.raised
    /\ db.nmerge < 2
    /\ db' = [db EXCEPT !.pc = "fed", !.items = db.out \o db.rest,
                        !.rest = <<>>, !.out = <<>>]
    /\ UNCHANGED agent_vars

\* The caller asks the first artifact of the list for its children.
DbChildren(origin_type) ==
    /\ db.pc = "loaded"
    /\ db.nrev = 0
    /\ db' = [db EXCEPT !.pc = "children",
                        !.kids = children(db.items[1], origin_type, db.target),
                        !.origin_type = origin_type]
    /\ UNCHANGED agent_vars

NextDb ==
    \/ DbReversed
    \/ DbMerge
    \/ DbFeed
    \/ \E origin_type \in {"address", "fqdn"} : DbChildren(origin_type)

SpecDb == InitDb /\ [][NextDb]_vars

\* Write units alongside one another: a single bucket that rotates at every
\* tick forgets a key at once, so that several units for one key are
\* pending together; every unit runs to completion.
InitUnits == InitWith(1, 1, 1)

\* The TCP frames of Frames that belong to a flow: two flows.
FlowFrames == {f \in Frames : f.p = IPPROTO_TCP /\ Classify(f) # NoKey}

NextUnits ==
    \/ Tick
    \/ /\ Cardinality(Unfinished(tasks)) <= MaxPending
       /\ \E pkt \in FlowFrames : ProcessData(pkt)
    \/ \E id \in DOMAIN tasks : TaskClient(id)
    \/ \E id \in DOMAIN tasks : TaskIncr(id)
    \/ \E id \in DOMAIN tasks : TaskExpire(id)

SpecUnits == InitUnits /\ [][NextUnits]_vars

----------------------------------------------------------------------------
(* From the packet to the artifact: the agent writes flow keys to the store *)
(* and the reader decodes a stored key and its value.                       *)

\* Three flows: the client as source and as destination, ports of one to
\* five digits, addresses with octets of one to three digits.
TripFrames ==
    {Frame(IPPROTO_UDP, <<10, 0, 0, 5>>, <<9, 9, 9, 9>>, 53, 65535),
     Frame(IPPROTO_TCP, <<9, 9, 9, 9>>, <<10, 0, 0, 255>>, 443, 53),
     Frame(IPPROTO_TCP, <<10, 0, 0, 255>>, <<10, 0, 1, 5>>, 65535, 0)}

\* The counters a flow may have in the store when the agent starts (an
\* earlier run of the agent wrote them).
EarlierCounts == {9, 120}

\* The agent starts; the store is empty or holds the counter of one flow from
\* an earlier run.
InitTrip ==
    /\ now = 0
    /\ recently = RecentInit(30, 3, 10, 0)
    /\ nbuckets = 3
    /\ tasks = <<>>
    /\ \/ redis = [value |-> <<>>, ttl |-> <<>>, clients |-> {}]
       \/ \E pkt \in TripFrames, n \in EarlierCounts :
             redis = [value |-> Put(<<>>, Classify(pkt).k, n),
                      ttl |-> Put(<<>>, Classify(pkt).k, TTL_GRACE),
                      clients |-> {Classify(pkt).client}]
    /\ main_pc = "run_forever"
    /\ gathered = {}
    /\ sock_open = TRUE
    /\ rot = 0
    /\ writes = <<>>
    /\ not_seen_at = <<>>
    /\ lost = {}
    /\ call = [pkt |-> NoFrame, k |-> NoKey.k, ret |-> "none", again |-> FALSE]
    /\ db = NoPass

\* The reader fetches key k and its value (the counter, as the text the store
\* returns) and decodes them.
DbDecode(k) ==
    /\ db = NoPass
    /\ k \in DOMAIN redis.value
    /\ db' = [pc |-> "decoded", k |-> k, stored |-> redis.value[k],
              v |-> DecimalStr(redis.value[k]),
              art |-> Decode(k, DecimalStr(redis.value[k]))]
    /\ UNCHANGED agent_vars

NextTrip ==
    \/ /\ Cardinality(DOMAIN tasks) < MaxPending
       /\ \E pkt \in TripFrames : ProcessData(pkt)
    \/ \E id \in DOMAIN tasks : TaskClient(id)
    \/ \E id \in DOMAIN tasks : TaskIncr(id)
    \/ \E id \in DOMAIN tasks : TaskExpire(id)
    \/ \E k \in DOMAIN redis.value : DbDecode(k)

SpecTrip == InitTrip /\ [][NextTrip]_vars

----------------------------------------------------------------------------
(* The properties checked.  What a frame should yield is written out here  *)
(* without the model's formatting operators: addresses and ports as the    *)
(* text they print as, and "inside the network" as the 10.0.0 prefix.      *)

\* This step is a call of process_data (on the frame the history then names).
ProcessDataStep == ProcessData(call'.pkt)

HostText(pkt_addr) ==
    CASE pkt_addr = <<10, 0, 0, 5>> -> <<"1", "0", ".", "0", ".", "0", ".", "5">>
      [] pkt_addr = <<10, 0, 0, 6>> -> <<"1", "0", ".", "0", ".", "0", ".", "6">>
      [] pkt_addr = <<10, 0, 0, 255>> -> <<"1", "0", ".", "0", ".", "0", ".", "2", "5", "5">>
      [] pkt_addr = <<10, 0, 1, 5>> -> <<"1", "0", ".", "0", ".", "1", ".", "5">>
      [] pkt_addr = <<9, 9, 9, 9>> -> <<"9", ".", "9", ".", "9", ".", "9">>

PortText(port) ==
    CASE port = 0 -> <<"0">>
      [] port = 53 -> <<"5", "3">>
      [] port = 443 -> <<"4", "4", "3">>
      [] port = 65535 -> <<"6", "5", "5", "3", "5">>

IsLocal(pkt_addr) == pkt_addr[1] = 10 /\ pkt_addr[2] = 0 /\ pkt_addr[3] = 0

\* The frame is classified: TCP or UDP with exactly one endpoint local.
Keyed(pkt) ==
    /\ pkt.p \in {6, 17}
    /\ IsLocal(pkt.src) # IsLocal(pkt.dst)

\* The key such a frame should yield (no text for a frame that yields none).
ExpectedKey(pkt) ==
    IF ~Keyed(pkt) THEN <<>>
    ELSE IF IsLocal(pkt.src)
    THEN HostText(pkt.src) \o <<";">> \o HostText(pkt.dst) \o <<";">>
             \o PortText(pkt.dport) \o <<";", "f", "l", "o", "w">>
    ELSE HostText(pkt.dst) \o <<";">> \o HostText(pkt.src) \o <<";">>
             \o PortText(pkt.sport) \o <<";", "f", "l", "o", "w">>

\* The write units this step submitted.
Submitted == {tasks'[id] : id \in DOMAIN tasks' \ DOMAIN tasks}

\* The keys the buckets hold.
BucketKeys(r) == UNION {r.buckets[i] : i \in 1..Len(r.buckets)}

\* Write units submitted so far for key k and not yet gone.
UnitsFor(k) == {id \in DOMAIN tasks : tasks[id].k = k}

(* C1: process_data submits a write unit for a frame exactly when the frame  *)
(* is classified and seen(key) returned False, the unit being for that key;  *)
(* and the units submitted for any one key number at most                    *)
(* 1 + floor(rotations / buckets), however many frames carried the key.      *)
C1_WriteOnlyWhenNotSeen ==
    [][ /\ ProcessDataStep =>
              /\ (Submitted # {}) <=> (Keyed(call'.pkt) /\ call'.ret = "not seen")
              /\ \A u \in Submitted : u.k = ExpectedKey(call'.pkt)
              /\ Cardinality(DOMAIN tasks') <= Cardinality(DOMAIN tasks) + 1
        /\ \A k \in DOMAIN writes' :
              /\ writes'[k] <= 1 + (rot' \div nbuckets)
              /\ writes'[k] = Cardinality({id \in DOMAIN tasks' : tasks'[id].k = k})
      ]_vars

\* A key written twice after exactly B = 3 rotations: the bound is met.
C1_Witness ==
    /\ nbuckets = 3
    /\ rot = 3
    /\ \E k \in DOMAIN writes : writes[k] = 2 /\ Cardinality(UnitsFor(k)) = 2

(* C2, as stated: whenever seen(k) is called twice in immediate succession,  *)
(* the second call returns True.                                             *)
C2_SecondCallSeen == call.again => call.ret = "seen"

(* C2, amended: of two calls seen(k) in immediate succession the second      *)
(* returns True unless it performs a rotation that discards the bucket       *)
(* holding k (k was in the oldest bucket), and then it returns False; with   *)
(* two or more buckets, a first call that returned False is followed by True.*)
C2_SecondCallSeenUnlessDiscarded ==
    [][ (ProcessDataStep /\ call'.again) =>
            LET oldest == recently.buckets[Len(recently.buckets)]
                discarded == Rotates(recently, now) /\ call'.k \in oldest
            IN  /\ (call'.ret = "seen") <=> ~discarded
                /\ (call.ret = "not seen" /\ nbuckets >= 2) => call'.ret = "seen"
      ]_vars

\* The second of two calls rotated, with the key kept among several buckets:
\* it is in the second bucket, the new current bucket is empty.
C2_Witness ==
    /\ call.again
    /\ call.ret = "seen"
    /\ nbuckets >= 2
    /\ call.k \in recently.buckets[2]
    /\ recently.buckets[1] = {}
    /\ recently.last_time = now
    /\ now > 0

(* C3: once seen(k) has returned False and B rotations have occurred since   *)
(* (in calls presenting other keys), the next seen(k) returns False again.   *)
C3_ForgottenAfterBRotations ==
    [][ ( /\ ProcessDataStep
              /\ Keyed(call'.pkt)
              /\ call'.k \in DOMAIN not_seen_at
              /\ rot - not_seen_at[call'.k] >= nbuckets )
            => call'.ret = "not seen"
      ]_vars

\* A key reported new a second time by a call that made no rotation check
\* (frequency 2, the counter at 1), three rotations after it was inserted.
C3_Witness ==
    /\ nbuckets = 3
    /\ recently.frequency = 2
    /\ recently.count = 1
    /\ call.ret = "not seen"
    /\ call.k \in DOMAIN writes
    /\ writes[call.k] = 2
    /\ not_seen_at[call.k] = rot
    /\ rot = 3

(* C4: between two calls seen(k) that both return False at least B rotations *)
(* occur; and a call that returns True does not insert k: it leaves buckets  *)
(* and working_set as they were, apart from the rotation its check_frequency *)
(* may perform, which only removes keys.                                     *)
C4_NewAtMostOncePerBRotations ==
    [][ (ProcessDataStep /\ Keyed(call'.pkt)) =>
            /\ (call'.ret = "not seen" /\ call'.k \in DOMAIN not_seen_at)
                   => rot' - not_seen_at[call'.k] >= nbuckets
            /\ call'.ret = "seen" =>
                   IF rot' = rot
                   THEN /\ recently'.buckets = recently.buckets
                        /\ recently'.working_set = recently.working_set
                   ELSE /\ recently'.buckets[1] = {}
                        /\ BucketKeys(recently') \subseteq BucketKeys(recently)
                        /\ recently'.working_set \subseteq recently.working_set
      ]_vars

\* Continuous activity on one key: presented twice running, and the second
\* call reports it new for the second time.
C4_Witness ==
    /\ call.again
    /\ call.ret = "not seen"
    /\ nbuckets >= 2
    /\ writes[call.k] = 2

C6_DiscardedFrameNoEffect ==
    [][ (ProcessDataStep /\ ~Keyed(call'.pkt)) =>
            /\ call'.k = <<>>
            /\ call'.ret = "none"
            /\ UNCHANGED <<recently, now, tasks, redis, rot, writes, not_seen_at>>
      ]_vars

\* An ICMP frame between a local host and a remote one was discarded by a
\* cache that holds keys.
C6_Witness ==
    /\ call.pkt.p = IPPROTO_ICMP
    /\ call.ret = "none"
    /\ recently.working_set # {}
    /\ rot > 0

(* C7, as stated: shutdown is ordered.  After the interrupt no frame is      *)
(* accepted (process_data does not run, no write unit is submitted), and     *)
(* when the socket is closed no write unit is left unfinished.               *)
C7_ShutdownOrdered ==
    [][ /\ main_pc # "run_forever" => (call' = call /\ Submitted = {})
        /\ (sock_open /\ ~sock_open') => Unfinished(tasks') = {}
      ]_vars

(* C8: cancelling the outstanding write units at shutdown is a normal        *)
(* outcome: close_tasks never ends by raising, its await never waits on a    *)
(* unit still running, and main, once done, has closed the socket.           *)
C8_CancellationIsNormal ==
    /\ main_pc # "raised"
    /\ main_pc = "await" => gathered \cap Unfinished(tasks) = {}
    /\ main_pc = "done" => ~sock_open

\* main has returned after close_tasks cancelled a write unit part-way.
C8_Witness ==
    /\ main_pc = "done"
    /\ ~sock_open
    /\ \E id \in gathered : tasks[id].pc = "cancelled"

(* C9, as stated: every flow key in the store carries the grace period as    *)
(* its expiry, in every state of the store, also after a write unit that     *)
(* failed or was cancelled part-way.                                         *)
C9_EveryKeyHasExpiry ==
    \A k \in DOMAIN redis.value : redis.ttl[k] = TTL_GRACE

(* C10: a write unit that fails leaves reception running and the cache as it *)
(* was; the key of every unit submitted is already recorded in the cache     *)
(* (working_set and the current bucket) when the unit is submitted; and for  *)
(* a key whose write was lost a further unit is submitted only once the      *)
(* cache has forgotten the key, B rotations after it was recorded.           *)
C10_AtMostOnceDelivery ==
    [][ /\ (\E id \in DOMAIN tasks : TaskFail(id)) =>
              /\ recently' = recently
              /\ main_pc' = "run_forever"
              /\ sock_open'
        /\ ProcessDataStep =>
              \A u \in Submitted :
                  /\ u.k \in recently'.working_set
                  /\ u.k \in recently'.buckets[1]
                  /\ (u.k \in lost) => (rot' - not_seen_at[u.k] >= nbuckets)
      ]_vars

\* The write for a key was lost, a later frame carried the key again, and no
\* unit was submitted for it.
C10_Witness ==
    /\ call.k \in lost
    /\ call.ret = "seen"
    /\ UnitsFor(call.k) = {}
    /\ main_pc = "run_forever"

(* C11: write units interleave at their store operations in any order; the *)
(* counter stored at a key is at every moment the number of units for the   *)
(* key that have made their increment, so that once all units submitted    *)
(* for the key have completed it is the number of completed units.  (No     *)
(* key expires and no unit fails here.)                                     *)
C11_CounterIsCompletedUnits ==
    \A k \in DOMAIN writes :
        LET counter == IF k \in DOMAIN redis.value THEN redis.value[k] ELSE 0
            before_incr == {id \in UnitsFor(k) : tasks[id].pc \in {"client_to_redis", "incr"}}
            completed == writes[k] - Cardinality(UnitsFor(k))
        IN  /\ counter = writes[k] - Cardinality(before_incr)
            /\ completed <= counter
            /\ UnitsFor(k) = {} => counter = completed

\* Two units for one key run interleaved: both have made their increment,
\* neither has set the expiry yet; the counter is 2.
C11_Witness ==
    \E k \in DOMAIN writes :
        /\ writes[k] = 2
        /\ Cardinality({id \in UnitsFor(k) : tasks[id].pc = "expire"}) = 2
        /\ redis.value[k] = 2
        /\ redis.ttl[k] = NoExpiry

----------------------------------------------------------------------------
(* Merge, reversal and children (app/database.py).  What merge should      *)
(* return is written out from the input list, without the model's merge.   *)

\* The identity merge groups a variant by, as its attribute values.
IdentityOf(a) ==
    CASE a.cls = "DNS" -> <<a.remote_address>>
      [] a.cls = "CNAME" -> <<a.rname>>
      [] a.cls = "NXDOMAIN" -> <<a.oname>>
      [] OTHER -> <<a.remote_address, a.remote_port>>

\* The positions of list that hold an artifact of identity id.
Members(list, id) == {i \in 1..Len(list) : IdentityOf(list[i]) = id}

\* The sum of the counts at positions P of list.
RECURSIVE CountSum(_, _)
CountSum(list, P) ==
    IF P = {} THEN 0
    ELSE LET i == CHOOSE j \in P : TRUE
         IN  list[i].count + CountSum(list, P \ {i})

\* The contents of an artifact's metadata of type t in heap.
MetadataOf(a, t, heap) == metadata_for(a, t, heap).val

\* The last merge returned.
Merged == db.pc = "merged" /\ ~db.raised

Reorderings(list) ==
    {[i \in 1..Len(list) |-> list[p[i]]] :
        p \in {q \in [1..Len(list) -> 1..Len(list)] :
                  \A i, j \in 1..Len(list) : q[i] = q[j] => i = j}}

\* What a list of artifacts says: per identity, the count and the onames.
Summary(list) ==
    {[identity |-> IdentityOf(list[i]), count |-> list[i].count,
      onames |-> Range(list[i].onames)] : i \in 1..Len(list)}

(* C13, as stated: merge is independent of order and grouping.  Merging a  *)
(* list in any other order returns the same identities, counts and oname   *)
(* sets; and merging a part of the artifacts first and what that returned  *)
(* together with the others afterwards returns what merging them all at    *)
(* once returns.                                                           *)
C13_MergeOrderAndGroupingIndependent ==
    /\ (db.pc = "merged" /\ db.nmerge = 1) =>
          /\ ~db.raised
          /\ \A other \in Reorderings(db.before.items) :
                LET r == merge(other, db.target, db.before.heap)
                IN  ~r.raised /\ Summary(r.out) = Summary(db.out)
    /\ (db.pc = "merged" /\ db.nmerge = 2 /\ ~db.revout) =>
          /\ ~db.raised
          /\ Summary(db.out)
                = Summary(merge(db.whole.items, db.target, db.whole.heap).out)

\* The metadata types there are, and the set objects an artifact refers to.
AllMetadataTypes == {"clients", "targets", "types", "ports"}
MetadataRefs(a) == {a.metadata[t] : t \in DOMAIN a.metadata}

(* C14, as stated: merge never mutates an input.  When merge(items,        *)
(* target) has returned, every artifact that was in items has the metadata *)
(* contents it had before the call, and no output refers to a set object   *)
(* that an input refers to.  (The other attributes of an input are never   *)
(* assigned by merge, which assigns only to copies.)                       *)
C14_MergeLeavesInputsAlone ==
    Merged =>
        \A i \in 1..Len(db.before.items) :
            LET a == db.before.items[i]
            IN  /\ \A t \in AllMetadataTypes :
                      MetadataOf(a, t, db.heap) = MetadataOf(a, t, db.before.heap)
                /\ \A j \in 1..Len(db.out) :
                      MetadataRefs(a) \cap MetadataRefs(db.out[j]) = {}

\* The constituent of identity id that merge folds first: the list's final
\* element (merge pops it before its loop) if it has the identity, otherwise
\* the earliest element that has it.
FirstFolded(list, id) ==
    IF IdentityOf(list[Len(list)]) = id THEN list[Len(list)]
    ELSE list[CHOOSE i \in Members(list, id) :
                 \A j \in Members(list, id) : i <= j]

\* The constituents of identity id that satisfy the target filter.
TargetedMembers(list, id, target) ==
    {i \in Members(list, id) : is_targeted(list[i], target)}

(* C15: the representative address.  For every output of a merge: if some  *)
(* constituent of its identity satisfies is_targeted(target), the output's *)
(* client_address is that of a constituent that does; if none does, it is  *)
(* the client_address of the constituent folded first for the identity.    *)
C15_RepresentativeAddress ==
    Merged =>
        \A j \in 1..Len(db.out) :
            LET list == db.before.items
                id == IdentityOf(db.out[j])
                T == TargetedMembers(list, id, db.target)
            IN  IF T # {}
                THEN db.out[j].client_address \in {list[i].client_address : i \in T}
                ELSE db.out[j].client_address = FirstFolded(list, id).client_address

\* Under the filter 10.0.0.0/24, an identity whose first-folded constituent is
\* outside the network and another inside: the output has the inside address.
C15_Witness ==
    /\ Merged
    /\ db.target = our_network
    /\ \E j \in 1..Len(db.out) :
          LET list == db.before.items
              id == IdentityOf(db.out[j])
          IN  /\ ~is_targeted(FirstFolded(list, id), db.target)
              /\ TargetedMembers(list, id, db.target) # {}
              /\ Cardinality(Members(list, id)) >= 3
              /\ is_targeted(db.out[j], db.target)

\* The artifacts the pass holds, merged or not.
Held == db.items \o db.rest

(* C16, as stated: reversal is an involution on RST and ICMP artifacts.    *)
(* x.reversed() has client and remote swapped and the metadata types       *)
(* {targets, types, ports}; x.reversed().reversed() has the client_address,*)
(* remote_address, remote_port and count of x and the metadata types of x  *)
(* ({clients, types, ports}).                                              *)
C16_ReversalInvolution ==
    /\ (db.nmerge = 0 /\ db.nrev = 1) =>
          \A i \in 1..Len(db.loaded) :
              /\ Held[i].client_address = db.loaded[i].remote_address
              /\ Held[i].remote_address = db.loaded[i].client_address
              /\ Held[i].remote_port = db.loaded[i].remote_port
              /\ Held[i].count = db.loaded[i].count
              /\ Held[i].METADATA_TYPES = {"targets", "types", "ports"}
              /\ DOMAIN Held[i].metadata = {"targets", "types", "ports"}
    /\ (db.nmerge = 0 /\ db.nrev = 2) =>
          \A i \in 1..Len(db.loaded) :
              /\ Held[i].client_address = db.loaded[i].client_address
              /\ Held[i].remote_address = db.loaded[i].remote_address
              /\ Held[i].remote_port = db.loaded[i].remote_port
              /\ Held[i].count = db.loaded[i].count
              /\ Held[i].METADATA_TYPES = db.loaded[i].METADATA_TYPES
              /\ db.loaded[i].METADATA_TYPES = {"clients", "types", "ports"}

\* The node identities a list of artifacts denotes.
NodeIds(list) == {IdentityOf(list[i]) : i \in 1..Len(list)}

\* The whole list was reversed and then merged; and what merging it and then
\* reversing each output gives.
ReversedThenMerged ==
    /\ Merged
    /\ db.nrev = 1 /\ db.nmerge = 1 /\ ~db.revout
    /\ db.cut = Len(db.loaded)
MergeThenReverse(list, target) ==
    LET r == merge(list, target, <<>>) IN ReversedAll(r.out, r.heap).list

\* The whole list was merged and each output then reversed; and what
\* reversing each artifact and then merging gives.
MergedThenReversed ==
    /\ db.pc = "fed"
    /\ db.nrev = 1 /\ db.nmerge = 1 /\ db.revout
    /\ db.cut = Len(db.loaded)
ReverseThenMerge(list, target) ==
    LET r == ReversedAll(list, <<>>) IN merge(r.list, target, r.heap).out

OneClientPerIdentity(list) ==
    \A i, j \in 1..Len(list) :
        IdentityOf(list[i]) = IdentityOf(list[j])
            => list[i].client_address = list[j].client_address

\* The nodes of the reversed view: client address and port of each artifact.
ClientNodes(list) ==
    {<<list[i].client_address, list[i].remote_port>> : i \in 1..Len(list)}

TargetedAhead(list, id, target) ==
    TargetedMembers(list, id, target) \ {Len(list)}

\* The greatest position in P.
LastOf(P) == CHOOSE i \in P : \A j \in P : j <= i

(* C20, as stated: last match wins.  When several constituents of one      *)
(* identity satisfy the target filter, the output's client_address is that *)
(* of the last of them in the input list.                                  *)
C20_LastMatchInList ==
    Merged =>
        \A j \in 1..Len(db.out) :
            LET list == db.before.items
                T == TargetedMembers(list, IdentityOf(db.out[j]), db.target)
            IN  Cardinality(T) >= 2
                    => db.out[j].client_address = list[LastOf(T)].client_address

(* C20, amended: the last match in fold order wins.  merge takes the       *)
(* list's final element first and then the others in list order, so when a *)
(* constituent of the identity ahead of the final element satisfies the    *)
(* target filter (as one does whenever several constituents satisfy it),   *)
(* the output's client_address is that of the last such constituent in     *)
(* the list; the final element's address is kept only when no constituent  *)
(* ahead of it satisfies the filter.                                       *)
C20_LastMatchInFoldOrder ==
    Merged =>
        \A j \in 1..Len(db.out) :
            LET list == db.before.items
                id == IdentityOf(db.out[j])
                A == TargetedAhead(list, id, db.target)
            IN  /\ A # {} => db.out[j].client_address = list[LastOf(A)].client_address
                /\ Cardinality(TargetedMembers(list, id, db.target)) >= 2 => A # {}
                /\ (A = {} /\ IdentityOf(list[Len(list)]) = id)
                      => db.out[j].client_address = list[Len(list)].client_address

\* Under the filter 10.0.0.0/24, three artifacts of one identity, all from
\* clients inside the network: the output has the address of the second,
\* which is not the address of the third.
C20_Witness ==
    /\ Merged
    /\ db.target = our_network
    /\ Len(db.before.items) = 3
    /\ Len(db.out) = 1
    /\ TargetedMembers(db.before.items, IdentityOf(db.out[1]), db.target) = {1, 2, 3}
    /\ db.out[1].client_address = db.before.items[2].client_address
    /\ db.out[1].client_address # db.before.items[3].client_address

----------------------------------------------------------------------------
(* Children.                                                               *)

\* The artifact asked for its children, and the flag its pairs are to carry:
\* no target, or a client address in 10.0.0.0/24.
Asked == db.loaded[1]
Flag == db.target = NoTarget \/ IsLocal(Asked.client_address)

\* The text of the remote addresses the DNS artifacts have.
RemoteText ==
    IF Asked.remote_address = <<9, 9, 9, 9>>
    THEN <<"9", ".", "9", ".", "9", ".", "9">>
    ELSE <<"1", "0", ".", "0", ".", "0", ".", "2", "5", "5">>

(* C18: children(origin_type, target) of one artifact.  DNS and CNAME      *)
(* under 'address': one pair (oname, flag) per oname, in order; under      *)
(* 'fqdn': exactly one pair, naming the remote address (DNS) or the rname  *)
(* (CNAME).  NXDOMAIN: one pair (oname, flag) under 'fqdn', nothing under  *)
(* 'address'.  Netflow, RST, ICMP: nothing.  The flag of every pair is     *)
(* is_targeted(target): true when there is no target or the client address*)
(* is in the target network.                                               *)
C18_Children ==
    db.pc = "children" =>
        /\ \A i \in 1..Len(db.kids) : db.kids[i][2] = Flag
        /\ db.cls \in {"DNS", "CNAME"} /\ db.origin_type = "address" =>
              /\ Len(db.kids) = Len(Asked.onames)
              /\ \A i \in 1..Len(db.kids) : db.kids[i][1] = Asked.onames[i]
        /\ db.cls = "DNS" /\ db.origin_type = "fqdn" =>
              db.kids = << <<RemoteText, Flag>> >>
        /\ db.cls = "CNAME" /\ db.origin_type = "fqdn" =>
              db.kids = << <<Asked.rname, Flag>> >>
        /\ db.cls = "NXDOMAIN" /\ db.origin_type = "fqdn" =>
              db.kids = << <<Asked.oname, Flag>> >>
        /\ db.cls = "NXDOMAIN" /\ db.origin_type = "address" => db.kids = <<>>
        /\ db.cls \in {"Netflow", "RST", "ICMP"} => db.kids = <<>>

\* A DNS artifact with two onames and a client outside 10.0.0.0/24, asked
\* under 'address' with that target: two pairs, neither flagged.
C18_Witness ==
    /\ db.pc = "children"
    /\ db.cls = "DNS" /\ db.origin_type = "address"
    /\ db.target = our_network
    /\ db.kids = << <<NameA, FALSE>>, <<NameC, FALSE>> >>

----------------------------------------------------------------------------
(* The key round trip.                                                     *)

\* The frames whose flow key is the one decoded.
FramesOf(k) == {f \in TripFrames : Keyed(f) /\ ExpectedKey(f) = k}

(* C19: the key round trip.  Every flow key the classifier emitted for a   *)
(* frame and that is stored with an integer counter is dispatched by its   *)
(* trailing tag 'flow' to a NetflowArtifact whose client_address and       *)
(* remote_address are the frame's local and other endpoint, whose          *)
(* remote_port is the other endpoint's port (as decimal text) and whose    *)
(* count is the stored counter.                                            *)
C19_KeyRoundTrip ==
    db.pc = "decoded" =>
        /\ FramesOf(db.k) # {}
        /\ db.art.cls = "Netflow"
        /\ db.art.count = db.stored
        /\ \A f \in FramesOf(db.k) :
              /\ db.art.client_address = IF IsLocal(f.src) THEN f.src ELSE f.dst
              /\ db.art.remote_address = IF IsLocal(f.src) THEN f.dst ELSE f.src
              /\ db.art.remote_port
                    = PortText(IF IsLocal(f.src) THEN f.dport ELSE f.sport)

\* The flow of client 10.0.0.255 with 9.9.9.9, port 443, counted 9 times by
\* an earlier run and once more by this one, decoded with count 10.
C19_Witness ==
    /\ db.pc = "decoded"
    /\ call.pkt = Frame(IPPROTO_TCP, <<9, 9, 9, 9>>, <<10, 0, 0, 255>>, 443, 53)
    /\ db.k = call.k
    /\ db.v = <<"1", "0">>
    /\ db.art.client_address = <<10, 0, 0, 255>>
    /\ db.art.remote_address = <<9, 9, 9, 9>>
    /\ db.art.remote_port = <<"4", "4", "3">>
    /\ db.art.count = 10

----------------------------------------------------------------------------
(* The structure of the cache.                                             *)

\* The union of the buckets at positions P.
BucketsUnion(r, P) == UNION {r.buckets[i] : i \in P}

(* C21, as stated: in every state of the cache, working_set is the union   *)
(* of all buckets except the oldest (the last of self.buckets).            *)
C21_WorkingSetExcludesOldest ==
    recently.working_set
        = BucketsUnion(recently, 1..(Len(recently.buckets) - 1))

(* C21, amended: in every state of the cache, working_set is the union of  *)
(* all the buckets, the oldest included; the keys of the oldest bucket     *)
(* leave working_set at the rotation that discards the bucket.             *)
C21_WorkingSetIsAllBuckets ==
    recently.working_set = BucketsUnion(recently, 1..Len(recently.buckets))

\* After two rotations of three buckets, the key the last call presented is
\* held by the oldest bucket only, is in working_set, and was reported seen.
C21_Witness ==
    /\ nbuckets = 3
    /\ rot = 2
    /\ call.ret = "seen"
    /\ call.k \in recently.buckets[3]
    /\ call.k \notin BucketsUnion(recently, 1..2)
    /\ call.k \in recently.working_set

(* C22: the structure of the cache after any sequence of seen() calls:     *)
(* there are exactly B buckets, the current bucket is the first of them,   *)
(* no key is held in two buckets, and every key of working_set is held in  *)
(* a bucket (so the cache holds at most B generations of distinct keys).   *)
C22_CacheStructure ==
    /\ Len(recently.buckets) = nbuckets
    /\ recently.current = 1
    /\ \A i, j \in 1..Len(recently.buckets) :
          i # j => recently.buckets[i] \cap recently.buckets[j] = {}
    /\ \A k \in recently.working_set :
          \E i \in 1..Len(recently.buckets) : k \in recently.buckets[i]

\* Three buckets after a rotation, with one key in the current bucket and
\* another in the bucket before it.
C22_Witness ==
    /\ nbuckets = 3
    /\ rot >= 1
    /\ Len(recently.buckets) = 3
    /\ recently.buckets[1] # {}
    /\ recently.buckets[2] # {}
    /\ Cardinality(recently.working_set) = 2

\* The cache is not what it was: a key was inserted or a rotation made.
CacheChanged ==
    \/ recently'.buckets # recently.buckets
    \/ recently'.working_set # recently.working_set
    \/ recently'.last_time # recently.last_time

\* This step made a rotation: the time of the last rotation is a new one.
RotatedInStep == recently'.last_time # recently.last_time

(* C23: when the cache rotates.  The cache changes only inside a seen()    *)
(* call; a rotation is made only by a call that is the frequency-th since  *)
(* the sample counter was last reset and only when cycle seconds or more   *)
(* have elapsed since the last rotation; such a call makes one rotation    *)
(* (every bucket moves one place, the oldest is dropped) however much time *)
(* has elapsed; so a key is reported seen by every call before which fewer *)
(* than B rotations have been made since it was inserted, this call's own  *)
(* rotation counted, whatever the time between.                            *)
C23_RotationGated ==
    [][ /\ CacheChanged => (ProcessDataStep /\ Keyed(call'.pkt))
        /\ RotatedInStep =>
              /\ recently.count + 1 = recently.frequency
              /\ now - recently.last_time >= recently.cycle
              /\ recently'.last_time = now
              /\ Len(recently'.buckets) = Len(recently.buckets)
              /\ \A i \in 2..Len(recently.buckets) :
                    recently'.buckets[i] = recently.buckets[i - 1]
              /\ recently'.buckets[1] \subseteq {call'.k}
              /\ rot' = rot + 1
        /\ ~RotatedInStep => rot' = rot
        /\ ( /\ ProcessDataStep
             /\ Keyed(call'.pkt)
             /\ call'.k \in DOMAIN not_seen_at
             /\ rot' - not_seen_at[call'.k] < nbuckets )
               => call'.ret = "seen"
      ]_vars

\* A key inserted at time 0, then nothing for two cycles or more; the call
\* that ends the idle time made the one rotation there has been, and the key
\* is reported seen from the second bucket.
C23_Witness ==
    /\ nbuckets >= 2
    /\ rot = 1
    /\ recently.last_time = now
    /\ now >= 2 * recently.cycle
    /\ recently.count = 0
    /\ recently.buckets[1] = {}
    /\ call.ret = "seen"
    /\ call.k \in recently.buckets[2]
    /\ not_seen_at[call.k] = 0

----------------------------------------------------------------------------
(* The caller's list.                                                      *)

(* C24, as stated: merge(items, target) leaves the caller's list as it     *)
(* was: when merge has returned, items holds the artifacts it held before  *)
(* the call, in the same order.                                            *)
C24_MergeLeavesListAlone ==
    Merged => db.items = db.before.items

====
